---- MODULE Spec2Model ----
(***************************************************************************)
(* A model of book_fetcher.py: the Book / OpenLibraryResponse validation,  *)
(* BookFetcher.fetch_books, BookFetcher.filter_books, JsonFormatter.format *)
(* and BookFormatter.write_to_file.                                        *)
(*                                                                         *)
(* Conventions.  A Python str is a sequence of characters, each character  *)
(* a one-element TLA+ string; a list is a sequence; `X | None` is <<>>     *)
(* for None and <<x>> for the value x.  List objects live in `heap`, and   *)
(* a reference to a list is its index in `heap`, so that `a is b` is the   *)
(* equality of two references.                                             *)
(***************************************************************************)
EXTENDS Integers, Sequences, FiniteSets, TLC

VARIABLES
    \* BookFetcher.filter_books and its caller
    pc,             \* "ready" | "filtered" | "mutated"
    heap,           \* the list objects: heap[r] is the content of list r
    books,          \* the reference the caller passes as `books`
    title_contains, \* the argument, str | None
    min_year,       \* the argument, int | None
    result,         \* the reference filter_books returned, <<>> before the call
    books0          \* the content of the caller's list before the call

filterVars == <<pc, heap, books, title_contains, min_year, result, books0>>

VARIABLES
    \* Book.model_validate
    vpc,            \* "ready" | "validated" | "raised"
    raw,            \* the mapping handed to Book.model_validate
    validated       \* the Book it returned, <<>> when there is none

validateVars == <<vpc, raw, validated>>

VARIABLES
    \* BookFetcher.fetch_books
    fpc,            \* the position in fetch_books, "returned" and "raised" its exits
    clientOpen,     \* whether the httpx.Client of the `with` block is open
    getCount,       \* the GET requests the call has issued
    response,       \* the response client.get returned, <<>> when there is none
    data,           \* what response.json() returned, <<>> when there is none
    jsonCalls,      \* the calls of response.json()
    validateCalls,  \* the calls of OpenLibraryResponse.model_validate
    parsed,         \* the OpenLibraryResponse, <<>> when there is none
    fetched,        \* the list fetch_books returned, <<>> when it returned none
    ferror          \* the exception fetch_books raised, "" when it raised none

fetchVars == <<fpc, clientOpen, getCount, response, data, jsonCalls,
               validateCalls, parsed, fetched, ferror>>

VARIABLES
    \* BookFetcher.save_books and BookFormatter.write_to_file
    wpc,            \* the position in save_books, "returned" and "raised" its exits
    wbooks,         \* the argument `books`
    indent,         \* JsonFormatter.indent
    content,        \* the local `content`, <<>> before format returns
    handle,         \* whether write_text holds an open file handle
    file,           \* the target file: "absent" | "old" | "truncated" | "partial" | "written"
    file0,          \* the target file before the call
    failed,         \* whether a file operation of the call has failed
    werror          \* the exception save_books raised, "" when it raised none

saveVars == <<wpc, wbooks, indent, content, handle, file, file0, failed, werror>>

vars == <<filterVars, validateVars, fetchVars, saveVars>>

----------------------------------------------------------------------------
(* Bounds *)

MaxBooks == 2
MaxTitleLen == 2
MaxQueryLen == 1
MaxDocs == 2

----------------------------------------------------------------------------
(* Optional values and strings *)

None == <<>>

Some(x) == <<x>>

IsNone(o) == Len(o) = 0

Get(o) == o[1]

\* All sequences over S of length at most n.
SeqsUpTo(S, n) == UNION {[1..k -> S] : k \in 0..n}

\* The characters of the model.  "SIGMA" is U+03A3 (capital sigma), "sigma"
\* U+03C3 (small sigma) and "fsigma" U+03C2 (small final sigma).
Latin == {"a", "A"}

Greek == {"SIGMA", "sigma"}

\* Python's str.islower/isupper notion: the characters with the Cased property.
IsCased(c) == c \in {"a", "A", "SIGMA", "sigma", "fsigma"}

\* The lowercase mapping of one character out of context.
LowerChar(c) ==
    CASE c = "A" -> "a"
      [] c = "SIGMA" -> "sigma"
      [] OTHER -> c

\* str.lower() of a capital sigma at position i: the small final sigma when a
\* cased character precedes it and none follows it (no character of the model
\* is case-ignorable, so the neighbours are the adjacent characters).
LowerSigma(s, i) ==
    IF /\ i > 1
       /\ IsCased(s[i - 1])
       /\ (i = Len(s) \/ ~IsCased(s[i + 1]))
    THEN "fsigma"
    ELSE "sigma"

\* str.lower()
lower(s) ==
    [i \in 1..Len(s) |-> IF s[i] = "SIGMA" THEN LowerSigma(s, i) ELSE LowerChar(s[i])]

\* `k in s` for two strs
Contains(s, k) ==
    \E i \in 0..(Len(s) - Len(k)) : SubSeq(s, i + 1, i + Len(k)) = k

\* Truthiness of a `str | None`: None and "" are falsy.
Truthy(o) == ~IsNone(o) /\ Len(Get(o)) > 0

----------------------------------------------------------------------------
(* Book *)

\* The value of a list[str] field: a list, told apart from None.
List(xs) == [isNone |-> FALSE, items |-> xs]

MkBook(t, an, y, p, l, n) ==
    [title |-> t, author_names |-> an, first_publish_year |-> y,
     publisher |-> p, language |-> l, number_of_pages |-> n]

Years == {-1, 0}

OptYears == {None} \cup {Some(y) : y \in Years}

\* Books that differ in the two fields filter_books reads.
BooksOver(chars) ==
    {MkBook(t, List(<<>>), y, List(<<>>), List(<<>>), None) : t \in SeqsUpTo(chars, MaxTitleLen), y \in OptYears}

OptQueries(chars, n) == {None} \cup {Some(q) : q \in SeqsUpTo(chars, n)}

----------------------------------------------------------------------------
(* BookFetcher.filter_books *)

\* A list display or comprehension: a new list object.
Alloc(h, v) == [heap |-> Append(h, v), ref |-> Len(h) + 1]

TitleKept(b, keyword) == Contains(lower(b.title), keyword)

YearKept(b, my) ==
    ~IsNone(b.first_publish_year) /\ Get(b.first_publish_year) >= my

\* `if title_contains:` ... `result = [b for b in result if keyword in b.title.lower()]`
TitleStep(st, tc) ==
    IF Truthy(tc)
    THEN LET keyword == lower(Get(tc))
         IN Alloc(st.heap, SelectSeq(st.heap[st.ref], LAMBDA b : TitleKept(b, keyword)))
    ELSE st

\* `if min_year:`, which takes min_year = 0 for no criterion.
YearStep_truthy(st, my) ==
    IF ~IsNone(my) /\ Get(my) # 0
    THEN Alloc(st.heap, SelectSeq(st.heap[st.ref], LAMBDA b : YearKept(b, Get(my))))
    ELSE st

\* `if min_year is not None:` ... `result = [b for b in result if ...]`
YearStep(st, my) ==
    IF ~IsNone(my)
    THEN Alloc(st.heap, SelectSeq(st.heap[st.ref], LAMBDA b : YearKept(b, Get(my))))
    ELSE st

\* The two criteria joined by `or` when both are supplied.
filter_books_or(h, bs, tc, my) ==
    LET a == TitleStep([heap |-> h, ref |-> bs], tc)
        b == YearStep([heap |-> h, ref |-> bs], my)
    IN IF Truthy(tc) /\ ~IsNone(my)
       THEN Alloc(h, SelectSeq(h[bs], LAMBDA x :
                \/ TitleKept(x, lower(Get(tc)))
                \/ YearKept(x, Get(my))))
       ELSE IF Truthy(tc) THEN a ELSE b

\* `min_year or 0`: with no min_year the year criterion is applied with 0.
filter_books_default_year(h, bs, tc, my) ==
    YearStep(TitleStep([heap |-> h, ref |-> bs], tc), IF IsNone(my) THEN Some(0) ELSE my)

\* filter_books(books, title_contains, min_year): the heap it leaves and the
\* reference it returns.  `result = books` binds the argument itself.
filter_books(h, bs, tc, my) ==
    YearStep(TitleStep([heap |-> h, ref |-> bs], tc), my)

----------------------------------------------------------------------------
(* Decoded JSON values and Book.model_validate *)

\* A decoded JSON value: null, an int, a str or a list of strs.  The strs of
\* the model are not numerals.
JNull == [t |-> "null", i |-> 0, s |-> <<>>, l |-> <<>>]

JInt(n) == [t |-> "int", i |-> n, s |-> <<>>, l |-> <<>>]

JStr(x) == [t |-> "str", i |-> 0, s |-> x, l |-> <<>>]

JList(xs) == [t |-> "list", i |-> 0, s |-> <<>>, l |-> xs]

\* A decoded JSON object read as one docs element: per key, <<>> when the
\* key is absent and <<v>> when it is present with value v.  `key` is a key
\* Book has no field for.
MkRaw(t, an1, an2, y, p, l, n1, n2, k) ==
    [title |-> t, author_name |-> an1, author_names |-> an2,
     first_publish_year |-> y, publisher |-> p, language |-> l,
     number_of_pages_median |-> n1, number_of_pages |-> n2, key |-> k]

\* populate_by_name is off: an aliased field is read under its alias only.
Lookup_alias_only(byAlias, byName) == byAlias

\* A field with an alias under populate_by_name=True: the alias is looked up
\* first and the field's name second.
Lookup(byAlias, byName) == IF ~IsNone(byAlias) THEN byAlias ELSE byName

\* `title: str`: required, and a str.
TitleOk(v) == ~IsNone(v) /\ Get(v).t = "str"

\* `list[str] = Field(default_factory=list)`: absent, or a list of str.
StrListOk(v) == IsNone(v) \/ Get(v).t = "list"

StrListOf(v) == IF IsNone(v) THEN List(<<>>) ELSE List(Get(v).l)

\* `int | None = None`: absent, null or an int.
OptIntOk(v) == IsNone(v) \/ Get(v).t \in {"null", "int"}

OptIntOf(v) == IF IsNone(v) \/ Get(v).t = "null" THEN None ELSE Some(Get(v).i)

\* pydantic's default extra="ignore".
ExtraOk(r) == TRUE

\* Book.model_validate(r): <<book>>, or <<>> for a ValidationError.
ValidateBook(r) ==
    LET an == Lookup(r.author_name, r.author_names)
        np == Lookup(r.number_of_pages_median, r.number_of_pages)
    IN IF /\ TitleOk(r.title)
          /\ StrListOk(an)
          /\ OptIntOk(r.first_publish_year)
          /\ StrListOk(r.publisher)
          /\ StrListOk(r.language)
          /\ OptIntOk(np)
          /\ ExtraOk(r)
       THEN Some(MkBook(Get(r.title).s, StrListOf(an), OptIntOf(r.first_publish_year),
                        StrListOf(r.publisher), StrListOf(r.language), OptIntOf(np)))
       ELSE None

\* The mappings Book.model_validate is tried on.
RawDocs ==
    {MkRaw(t, an1, an2, y, p, l, n1, n2, k) :
        t \in {None, Some(JStr(<<"a">>)), Some(JInt(7)), Some(JNull)},
        an1 \in {None, Some(JList(<<<<"x">>>>)), Some(JStr(<<"x">>))},
        an2 \in {None, Some(JList(<<<<"y">>>>))},
        y \in {None, Some(JInt(0)), Some(JNull), Some(JStr(<<"a">>))},
        p \in {None, Some(JList(<<<<"p">>>>)), Some(JNull)},
        l \in {None, Some(JList(<<<<"e">>, <<"f">>>>))},
        n1 \in {None, Some(JInt(1))},
        n2 \in {None, Some(JInt(2))},
        k \in {None, Some(JStr(<<"k">>))}}

IdleValidate ==
    /\ vpc = "idle"
    /\ raw = None
    /\ validated = None

InitValidate ==
    /\ vpc = "ready"
    /\ raw \in {Some(r) : r \in RawDocs}
    /\ validated = None

\* Book.model_validate(raw) returns a Book.
ValidateReturn ==
    /\ vpc = "ready"
    /\ ~IsNone(ValidateBook(Get(raw)))
    /\ validated' = ValidateBook(Get(raw))
    /\ vpc' = "validated"
    /\ UNCHANGED raw

\* Book.model_validate(raw) raises ValidationError.
ValidateRaise ==
    /\ vpc = "ready"
    /\ IsNone(ValidateBook(Get(raw)))
    /\ vpc' = "raised"
    /\ UNCHANGED <<raw, validated>>

----------------------------------------------------------------------------
(* OpenLibraryResponse.model_validate and BookFetcher.fetch_books *)

\* A response body.  kind "text" is a body that is no JSON and "array" a
\* JSON document that is no object; of an "object" the three keys the
\* envelope reads, <<>> when absent.  docs, when present, is null
\* (isList FALSE) or a list of objects.
MkBody(k, nf1, nf2, d) == [kind |-> k, numFound |-> nf1, num_found |-> nf2, docs |-> d]

DocsNull == [isList |-> FALSE, items |-> <<>>]

DocsList(xs) == [isList |-> TRUE, items |-> xs]

\* `num_found: int`: required, and an int.
IntOk(v) == ~IsNone(v) /\ Get(v).t = "int"

DocsOk(d) ==
    /\ ~IsNone(d)
    /\ Get(d).isList
    /\ \A i \in 1..Len(Get(d).items) : ~IsNone(ValidateBook(Get(d).items[i]))

\* The valid elements are kept and the others skipped.
ValidateEnvelope_lenient(b) ==
    IF b.kind = "object" /\ IntOk(Lookup(b.numFound, b.num_found))
       /\ ~IsNone(b.docs) /\ Get(b.docs).isList
    THEN LET ok == SelectSeq(Get(b.docs).items, LAMBDA r : ~IsNone(ValidateBook(r)))
         IN Some([num_found |-> Get(Lookup(b.numFound, b.num_found)).i,
                  docs |-> [i \in 1..Len(ok) |-> Get(ValidateBook(ok[i]))]])
    ELSE None

\* OpenLibraryResponse.model_validate(b): <<envelope>>, or <<>> for a
\* ValidationError.
ValidateEnvelope(b) ==
    IF b.kind = "object" /\ IntOk(Lookup(b.numFound, b.num_found)) /\ DocsOk(b.docs)
    THEN Some([num_found |-> Get(Lookup(b.numFound, b.num_found)).i,
               docs |-> [i \in 1..Len(Get(b.docs).items) |->
                            Get(ValidateBook(Get(b.docs).items[i]))]])
    ELSE None

\* The docs elements of the bodies: two that validate and two that do not.
FetchDocs ==
    {MkRaw(Some(JStr(<<"a">>)), None, None, None, None, None, None, None, None),
     MkRaw(Some(JStr(<<"A">>)), Some(JList(<<<<"x">>>>)), None, Some(JInt(0)), None,
           None, Some(JInt(1)), None, Some(JStr(<<"k">>))),
     MkRaw(None, Some(JList(<<<<"x">>>>)), None, None, None, None, None, None, None),
     MkRaw(Some(JInt(7)), None, None, None, None, None, None, None, None)}

Bodies ==
    {MkBody("text", None, None, None), MkBody("array", None, None, None)}
    \cup {MkBody("object", nf1, nf2, d) :
            nf1 \in {None, Some(JInt(0)), Some(JInt(5)), Some(JStr(<<"a">>))},
            nf2 \in {None, Some(JInt(1))},
            d \in {None, Some(DocsNull)}
                  \cup {Some(DocsList(xs)) : xs \in SeqsUpTo(FetchDocs, MaxDocs)}}

Statuses == {200, 301, 404, 500}

\* httpx.Response.is_success
IsSuccess(status) == 200 <= status /\ status <= 299

IdleFetch ==
    /\ fpc = "idle"
    /\ clientOpen = FALSE
    /\ getCount = 0
    /\ response = None
    /\ data = None
    /\ jsonCalls = 0
    /\ validateCalls = 0
    /\ parsed = None
    /\ fetched = None
    /\ ferror = ""

InitFetch ==
    /\ fpc = "call"
    /\ clientOpen = FALSE
    /\ getCount = 0
    /\ response = None
    /\ data = None
    /\ jsonCalls = 0
    /\ validateCalls = 0
    /\ parsed = None
    /\ fetched = None
    /\ ferror = ""

\* `with httpx.Client(timeout=30.0) as client:`
ClientEnter ==
    /\ fpc = "call"
    /\ clientOpen' = TRUE
    /\ fpc' = "get"
    /\ UNCHANGED <<getCount, response, data, jsonCalls, validateCalls, parsed,
                   fetched, ferror>>

\* client.get(...) returns a response; the client follows no redirect.
ClientGet ==
    /\ fpc = "get"
    /\ getCount' = getCount + 1
    /\ \E st \in Statuses, b \in Bodies : response' = Some([status |-> st, body |-> b])
    /\ fpc' = "status"
    /\ UNCHANGED <<clientOpen, data, jsonCalls, validateCalls, parsed, fetched, ferror>>

\* client.get(...) raises (no connection, a timeout); the `with` block
\* closes the client on the way out.
ClientGetRaise ==
    /\ fpc = "get"
    /\ getCount' = getCount + 1
    /\ clientOpen' = FALSE
    /\ ferror' = "TransportError"
    /\ fpc' = "raised"
    /\ UNCHANGED <<response, data, jsonCalls, validateCalls, parsed, fetched>>

\* The status is not checked.
RaiseForStatus_skip ==
    /\ fpc = "status"
    /\ fpc' = "json"
    /\ UNCHANGED <<clientOpen, getCount, response, data, jsonCalls, validateCalls,
                   parsed, fetched, ferror>>

\* response.raise_for_status()
RaiseForStatus ==
    /\ fpc = "status"
    /\ IF IsSuccess(Get(response).status)
       THEN /\ fpc' = "json"
            /\ UNCHANGED <<clientOpen, ferror>>
       ELSE /\ fpc' = "raised"
            /\ clientOpen' = FALSE
            /\ ferror' = "HTTPStatusError"
    /\ UNCHANGED <<getCount, response, data, jsonCalls, validateCalls, parsed, fetched>>

\* data = response.json(), and the end of the `with` block
ResponseJson ==
    /\ fpc = "json"
    /\ jsonCalls' = jsonCalls + 1
    /\ clientOpen' = FALSE
    /\ IF Get(response).body.kind = "text"
       THEN /\ fpc' = "raised"
            /\ ferror' = "JSONDecodeError"
            /\ UNCHANGED data
       ELSE /\ fpc' = "validate"
            /\ data' = Some(Get(response).body)
            /\ UNCHANGED ferror
    /\ UNCHANGED <<getCount, response, validateCalls, parsed, fetched>>

\* parsed = OpenLibraryResponse.model_validate(data)
ModelValidate ==
    /\ fpc = "validate"
    /\ validateCalls' = validateCalls + 1
    /\ LET env == ValidateEnvelope(Get(data))
       IN IF IsNone(env)
          THEN /\ fpc' = "raised"
               /\ ferror' = "ValidationError"
               /\ UNCHANGED parsed
          ELSE /\ fpc' = "return"
               /\ parsed' = env
               /\ UNCHANGED ferror
    /\ UNCHANGED <<clientOpen, getCount, response, data, jsonCalls, fetched>>

\* return parsed.docs
FetchReturn ==
    /\ fpc = "return"
    /\ fetched' = Some(Get(parsed).docs)
    /\ fpc' = "returned"
    /\ UNCHANGED <<clientOpen, getCount, response, data, jsonCalls, validateCalls,
                   parsed, ferror>>

----------------------------------------------------------------------------
(* JsonFormatter.format *)

\* The text json.dumps writes, as its sequence of tokens: the six
\* punctuation marks, "str" with the characters between the quotes, "int",
\* "null", and "ws", a line break followed by n spaces.
Tok(k) == [k |-> k, s |-> <<>>, n |-> 0]

TokWs(n) == [k |-> "ws", s |-> <<>>, n |-> n]

TokInt(n) == [k |-> "int", s |-> <<>>, n |-> n]

TokStr(chars) == [k |-> "str", s |-> chars, n |-> 0]

\* The characters json.dumps writes for one character of a str under
\* ensure_ascii=False: the quote and the backslash are escaped, the rest,
\* non-ASCII included, is written as it is.
EscapeChar(c) ==
    CASE c = "\"" -> <<"\\", "\"">>
      [] c = "\\" -> <<"\\", "\\">>
      [] OTHER -> <<c>>

RECURSIVE Escape(_)
Escape(x) == IF x = <<>> THEN <<>> ELSE EscapeChar(Head(x)) \o Escape(Tail(x))

RECURSIVE Join(_, _)
Join(parts, sep) ==
    IF parts = <<>> THEN <<>>
    ELSE IF Len(parts) = 1 THEN parts[1]
    ELSE parts[1] \o sep \o Join(Tail(parts), sep)

\* A list or dict display under indent=ind at nesting depth `level`; an empty
\* one is written without a line break.
DumpItems(open, parts, close, ind, level) ==
    IF parts = <<>> THEN <<Tok(open), Tok(close)>>
    ELSE <<Tok(open), TokWs(ind * (level + 1))>>
         \o Join(parts, <<Tok(","), TokWs(ind * (level + 1))>>)
         \o <<TokWs(ind * level), Tok(close)>>

DumpStr(x) == <<TokStr(Escape(x))>>

DumpOptInt(o) == IF IsNone(o) THEN <<Tok("null")>> ELSE <<TokInt(Get(o))>>

DumpStrList(v, ind, level) ==
    IF v.isNone THEN <<Tok("null")>>
    ELSE DumpItems("[", [i \in 1..Len(v.items) |-> DumpStr(v.items[i])], "]", ind, level)

\* book.model_dump(by_alias=True): the aliases as keys.
model_dump_by_alias(b) ==
    <<<<"title", "str", b.title>>,
      <<"author_name", "list", b.author_names>>,
      <<"first_publish_year", "int", b.first_publish_year>>,
      <<"publisher", "list", b.publisher>>,
      <<"language", "list", b.language>>,
      <<"number_of_pages_median", "int", b.number_of_pages>>>>

\* book.model_dump(by_alias=False): the fields in declaration order, each
\* with its name, the kind of its value and its value.
model_dump(b) ==
    <<<<"title", "str", b.title>>,
      <<"author_names", "list", b.author_names>>,
      <<"first_publish_year", "int", b.first_publish_year>>,
      <<"publisher", "list", b.publisher>>,
      <<"language", "list", b.language>>,
      <<"number_of_pages", "int", b.number_of_pages>>>>

\* One item of a dict: the key, the colon and the value.
DumpMember(m, ind, level) ==
    <<TokStr(<<m[1]>>), Tok(":")>>
    \o CASE m[2] = "str" -> DumpStr(m[3])
         [] m[2] = "int" -> DumpOptInt(m[3])
         [] m[2] = "list" -> DumpStrList(m[3], ind, level)

DumpDict(d, ind, level) ==
    DumpItems("{", [i \in 1..Len(d) |-> DumpMember(d[i], ind, level + 1)], "}", ind, level)

\* JsonFormatter.format(books):
\* json.dumps([book.model_dump(by_alias=False) for book in books], indent=ind, ensure_ascii=False)
format(bs, ind) ==
    DumpItems("[", [i \in 1..Len(bs) |-> DumpDict(model_dump(bs[i]), ind, 1)], "]", ind, 0)

----------------------------------------------------------------------------
(* BookFormatter.write_to_file and BookFetcher.save_books *)

\* The strs of the books that are written: a plain one, one with the two
\* characters json.dumps escapes, one that is not ASCII.
JsonTitles == {<<"a">>, <<"\"", "\\">>, <<"sigma", "a">>}

JsonBooks ==
    {MkBook(t, an, y, List(<<>>), List(<<<<"e">>>>), y) :
        t \in JsonTitles,
        an \in {List(<<>>), List(<<<<"x">>, <<"\"">>>>)},
        y \in {None, Some(-1)}}

Indents == {0, 2}

IdleSave ==
    /\ wpc = "idle"
    /\ wbooks = <<>>
    /\ indent = 0
    /\ content = None
    /\ handle = FALSE
    /\ file = "absent"
    /\ file0 = "absent"
    /\ failed = FALSE
    /\ werror = ""

InitSave ==
    /\ wpc = "save"
    /\ wbooks \in SeqsUpTo(JsonBooks, MaxBooks)
    /\ indent \in Indents
    /\ content = None
    /\ handle = FALSE
    /\ file0 \in {"absent", "old"}
    /\ file = file0
    /\ failed = FALSE
    /\ werror = ""

\* save_books: self.formatter.write_to_file(books, output_path)
SaveBooks ==
    /\ wpc = "save"
    /\ wpc' = "format"
    /\ UNCHANGED <<wbooks, indent, content, handle, file, file0, failed, werror>>

\* content = self.format(books)
Format ==
    /\ wpc = "format"
    /\ content' = Some(format(wbooks, indent))
    /\ wpc' = "open"
    /\ UNCHANGED <<wbooks, indent, handle, file, file0, failed, werror>>

\* filepath.write_text(content, encoding="utf-8") opens the file in mode "w":
\* the file is created or truncated.
Open ==
    /\ wpc = "open"
    /\ handle' = TRUE
    /\ file' = "truncated"
    /\ wpc' = "write"
    /\ UNCHANGED <<wbooks, indent, content, file0, failed, werror>>

\* The open fails (no such directory, no permission): OSError, no handle.
OpenRaise ==
    /\ wpc = "open"
    /\ failed' = TRUE
    /\ werror' = "OSError"
    /\ wpc' = "raised"
    /\ UNCHANGED <<wbooks, indent, content, handle, file, file0>>

\* f.write(content) inside write_text's `with` block
Write ==
    /\ wpc = "write"
    /\ file' = "written"
    /\ wpc' = "exit"
    /\ UNCHANGED <<wbooks, indent, content, handle, file0, failed, werror>>

\* f.write(content) fails; the file is left truncated or partly written.
WriteRaise ==
    /\ wpc = "write"
    /\ failed' = TRUE
    /\ file' \in {"truncated", "partial"}
    /\ wpc' = "unwind"
    /\ UNCHANGED <<wbooks, indent, content, handle, file0, werror>>

\* The handle is not closed when the write raises.
WithExitRaise_leak ==
    /\ wpc = "unwind"
    /\ werror' = "OSError"
    /\ wpc' = "raised"
    /\ UNCHANGED <<wbooks, indent, content, handle, file, file0, failed>>

\* The `with` block of write_text is left by the exception: the handle is
\* closed and the exception goes on to the caller.
WithExitRaise ==
    /\ wpc = "unwind"
    /\ handle' = FALSE
    /\ werror' = "OSError"
    /\ wpc' = "raised"
    /\ UNCHANGED <<wbooks, indent, content, file, file0, failed>>

\* The `with` block of write_text is left normally: the handle is closed and
\* write_to_file and save_books return.
WithExit ==
    /\ wpc = "exit"
    /\ handle' = FALSE
    /\ wpc' = "returned"
    /\ UNCHANGED <<wbooks, indent, content, file, file0, failed, werror>>

----------------------------------------------------------------------------
(* The caller of filter_books *)

InitFilter(universe) ==
    /\ pc = "ready"
    /\ \E bs \in SeqsUpTo(universe, MaxBooks) :
        /\ heap = <<bs>>
        /\ books0 = bs
    /\ books = 1
    /\ title_contains = None
    /\ min_year = None
    /\ result = None

IdleFilter ==
    /\ pc = "idle"
    /\ heap = <<>>
    /\ books0 = <<>>
    /\ books = 0
    /\ title_contains = None
    /\ min_year = None
    /\ result = None

\* result = fetcher.filter_books(books, title_contains=tc, min_year=my)
FilterBooks(queries) ==
    /\ pc = "ready"
    /\ \E tc \in queries, my \in OptYears :
        LET out == filter_books(heap, books, tc, my)
        IN /\ heap' = out.heap
           /\ result' = Some(out.ref)
           /\ title_contains' = tc
           /\ min_year' = my
    /\ pc' = "filtered"
    /\ UNCHANGED <<books, books0, validateVars, fetchVars, saveVars>>

\* The caller's later `result.pop()`.
ResultPop ==
    /\ pc = "filtered"
    /\ Len(heap[Get(result)]) > 0
    /\ heap' = [heap EXCEPT ![Get(result)] = SubSeq(@, 1, Len(@) - 1)]
    /\ pc' = "mutated"
    /\ UNCHANGED <<books, title_contains, min_year, result, books0>>
    /\ UNCHANGED <<validateVars, fetchVars, saveVars>>

NewBook == MkBook(<<"a">>, List(<<>>), None, List(<<>>), List(<<>>), None)

\* The caller's later `result.append(book)`.
ResultAppend ==
    /\ pc = "filtered"
    /\ heap' = [heap EXCEPT ![Get(result)] = Append(@, NewBook)]
    /\ pc' = "mutated"
    /\ UNCHANGED <<books, title_contains, min_year, result, books0>>
    /\ UNCHANGED <<validateVars, fetchVars, saveVars>>

\* One call of filter_books on books and queries over the Latin characters.
FilterLatin == FilterBooks(OptQueries(Latin, MaxQueryLen))

NextFilter == FilterLatin

Init == InitFilter(BooksOver(Latin)) /\ IdleValidate /\ IdleFetch /\ IdleSave

Spec == Init /\ [][NextFilter]_vars

\* The call, then the caller's mutation of the list it got back.
NextAlias ==
    \/ FilterLatin
    \/ ResultPop
    \/ ResultAppend

SpecAlias == Init /\ [][NextAlias]_vars

\* One call of filter_books on books and queries that hold Greek sigmas too.
FilterGreek == FilterBooks(OptQueries(Latin \cup Greek, MaxTitleLen))

NextCase == FilterGreek

InitCase ==
    InitFilter(BooksOver(Latin \cup Greek)) /\ IdleValidate /\ IdleFetch /\ IdleSave

SpecCase == InitCase /\ [][NextCase]_vars

NextValidate ==
    \/ ValidateReturn /\ UNCHANGED <<filterVars, fetchVars, saveVars>>
    \/ ValidateRaise /\ UNCHANGED <<filterVars, fetchVars, saveVars>>

InitValidateOnly == IdleFilter /\ InitValidate /\ IdleFetch /\ IdleSave

SpecValidate == InitValidateOnly /\ [][NextValidate]_vars

NextFetch ==
    \/ ClientEnter /\ UNCHANGED <<filterVars, validateVars, saveVars>>
    \/ ClientGet /\ UNCHANGED <<filterVars, validateVars, saveVars>>
    \/ ClientGetRaise /\ UNCHANGED <<filterVars, validateVars, saveVars>>
    \/ RaiseForStatus /\ UNCHANGED <<filterVars, validateVars, saveVars>>
    \/ ResponseJson /\ UNCHANGED <<filterVars, validateVars, saveVars>>
    \/ ModelValidate /\ UNCHANGED <<filterVars, validateVars, saveVars>>
    \/ FetchReturn /\ UNCHANGED <<filterVars, validateVars, saveVars>>

InitFetchOnly == IdleFilter /\ IdleValidate /\ InitFetch /\ IdleSave

SpecFetch == InitFetchOnly /\ [][NextFetch]_vars

NextSave ==
    \/ SaveBooks /\ UNCHANGED <<filterVars, validateVars, fetchVars>>
    \/ Format /\ UNCHANGED <<filterVars, validateVars, fetchVars>>
    \/ Open /\ UNCHANGED <<filterVars, validateVars, fetchVars>>
    \/ OpenRaise /\ UNCHANGED <<filterVars, validateVars, fetchVars>>
    \/ Write /\ UNCHANGED <<filterVars, validateVars, fetchVars>>
    \/ WriteRaise /\ UNCHANGED <<filterVars, validateVars, fetchVars>>
    \/ WithExitRaise /\ UNCHANGED <<filterVars, validateVars, fetchVars>>
    \/ WithExit /\ UNCHANGED <<filterVars, validateVars, fetchVars>>

InitSaveOnly == IdleFilter /\ IdleValidate /\ IdleFetch /\ InitSave

SpecSave == InitSaveOnly /\ [][NextSave]_vars

----------------------------------------------------------------------------
(* Claims about filter_books *)

\* The list filter_books returned.
Returned == heap[Get(result)]

HasYear(b) == ~IsNone(b.first_publish_year)

\* C1: with min_year supplied (0 and negative values included) a record is
\* retained iff its first_publish_year is present and >= min_year, so a
\* record whose year equals min_year stays and one with unknown year goes;
\* with min_year not supplied the records with unknown year are kept.
C1_YearFilter ==
    pc = "filtered" =>
        /\ ~IsNone(min_year) =>
            \A i \in 1..Len(Returned) :
                /\ HasYear(Returned[i])
                /\ Get(Returned[i].first_publish_year) >= Get(min_year)
        /\ (~IsNone(min_year) /\ ~Truthy(title_contains)) =>
            Returned = SelectSeq(books0, LAMBDA b :
                HasYear(b) /\ Get(b.first_publish_year) >= Get(min_year))
        /\ (IsNone(min_year) /\ ~Truthy(title_contains)) =>
            SelectSeq(Returned, LAMBDA b : ~HasYear(b))
                = SelectSeq(books0, LAMBDA b : ~HasYear(b))

\* min_year = 0 on a list with a record of year 0, kept, and a record of
\* unknown year, dropped.
C1_Witness ==
    /\ pc = "filtered"
    /\ min_year = Some(0)
    /\ IsNone(title_contains)
    /\ Len(books0) = 2
    /\ books0[1].first_publish_year = None
    /\ books0[2].first_publish_year = Some(0)
    /\ Returned = <<books0[2]>>

\* r is s with some elements left out: the order kept, nothing added.
IsSubsequence(r, s) ==
    \E f \in [1..Len(r) -> 1..Len(s)] :
        /\ \A i \in 1..Len(r) : r[i] = s[f[i]]
        /\ \A i, j \in 1..Len(r) : i < j => f[i] < f[j]

\* The criterion each argument stands for; an argument not supplied stands
\* for no criterion.
MeetsTitle(b, tc) == Truthy(tc) => Contains(lower(b.title), lower(Get(tc)))

MeetsYear(b, my) ==
    ~IsNone(my) => (HasYear(b) /\ Get(b.first_publish_year) >= Get(my))

\* C3: with both criteria supplied exactly the records that meet both are
\* returned, and for any criteria the result is a subsequence of the input
\* in the input's order.
C3_AndComposition ==
    pc = "filtered" =>
        /\ Returned = SelectSeq(books0, LAMBDA b :
                MeetsTitle(b, title_contains) /\ MeetsYear(b, min_year))
        /\ IsSubsequence(Returned, books0)

\* Both criteria supplied; the first record meets both, the second the title
\* only.
C3_Witness ==
    /\ pc = "filtered"
    /\ Truthy(title_contains)
    /\ ~IsNone(min_year)
    /\ Len(books0) = 2
    /\ MeetsTitle(books0[1], title_contains) /\ MeetsYear(books0[1], min_year)
    /\ MeetsTitle(books0[2], title_contains) /\ ~MeetsYear(books0[2], min_year)
    /\ Returned = <<books0[1]>>

\* C6: with no criteria (title_contains None or "", min_year None) the
\* returned sequence equals the input: same records, order and length.
C6_NoCriteriaIdentity ==
    (pc = "filtered" /\ ~Truthy(title_contains) /\ IsNone(min_year)) =>
        Returned = books0

\* title_contains = "" and no min_year on a list of two records, one of
\* unknown year.
C6_Witness ==
    /\ pc = "filtered"
    /\ title_contains = Some(<<>>)
    /\ IsNone(min_year)
    /\ Len(books0) = 2
    /\ ~HasYear(books0[1])
    /\ Returned = books0

\* C7: filter_books leaves the caller's list as it was and returns a list
\* object other than it, so that a later mutation of the result leaves the
\* caller's list alone.
C7_NewSequence ==
    pc \in {"filtered", "mutated"} =>
        /\ Get(result) # books
        /\ heap[books] = books0

\* Unicode case folding of one character and of a str (str.casefold()).
FoldChar(c) ==
    CASE c = "A" -> "a"
      [] c \in {"SIGMA", "fsigma"} -> "sigma"
      [] OTHER -> c

casefold(s) == [i \in 1..Len(s) |-> FoldChar(s[i])]

\* C2: with a non-empty title_contains exactly the records whose title
\* contains it, both case-folded, are retained, and a query that differs
\* from it only in letter case gives the same result.
C2_CaseInsensitive ==
    (pc = "filtered" /\ Truthy(title_contains) /\ IsNone(min_year)) =>
        /\ Returned = SelectSeq(books0, LAMBDA b :
                Contains(casefold(b.title), casefold(Get(title_contains))))
        /\ \A q \in SeqsUpTo(Latin \cup Greek, MaxTitleLen) :
                casefold(q) = casefold(Get(title_contains)) =>
                    LET out == filter_books(<<books0>>, 1, Some(q), None)
                    IN out.heap[out.ref] = Returned

----------------------------------------------------------------------------
(* Claims about Book validation and fetch_books *)

Absent(v) == IsNone(v)

\* C10: Book validation fails whenever title is absent or not text, and
\* otherwise gives a Book whose sequence fields are the empty list, not None,
\* for a missing source key and whose optional scalars are None, not a
\* number, for a missing source key; author_names and number_of_pages are
\* read from the alias or from the field's name; unknown keys are ignored.
C10_RecordValidation ==
    vpc # "ready" =>
        LET r == Get(raw) IN
        /\ (Absent(r.title) \/ Get(r.title).t # "str") => vpc = "raised"
        /\ (vpc = "raised") = IsNone(ValidateBook([r EXCEPT !.key = None]))
        /\ vpc = "raised" => validated = None
        /\ vpc = "validated" =>
            LET b == Get(validated) IN
            /\ b = Get(ValidateBook([r EXCEPT !.key = None]))
            /\ b.title = Get(r.title).s
            /\ ~b.author_names.isNone /\ ~b.publisher.isNone /\ ~b.language.isNone
            /\ (Absent(r.author_name) /\ Absent(r.author_names)) =>
                    b.author_names = List(<<>>)
            /\ Absent(r.publisher) => b.publisher = List(<<>>)
            /\ Absent(r.language) => b.language = List(<<>>)
            /\ Absent(r.first_publish_year) => b.first_publish_year = None
            /\ (Absent(r.number_of_pages_median) /\ Absent(r.number_of_pages)) =>
                    b.number_of_pages = None
            /\ ~Absent(r.author_name) => b.author_names = List(Get(r.author_name).l)
            /\ (Absent(r.author_name) /\ ~Absent(r.author_names)) =>
                    b.author_names = List(Get(r.author_names).l)
            /\ ~Absent(r.number_of_pages_median) =>
                    b.number_of_pages = Some(Get(r.number_of_pages_median).i)
            /\ (Absent(r.number_of_pages_median) /\ ~Absent(r.number_of_pages)) =>
                    b.number_of_pages = Some(Get(r.number_of_pages).i)

\* A mapping with a title, an unknown key, author_names and number_of_pages
\* under their public names and nothing else validates.
C10_Witness ==
    /\ vpc = "validated"
    /\ Get(raw) = MkRaw(Some(JStr(<<"a">>)), None, Some(JList(<<<<"y">>>>)), None, None,
                        None, None, Some(JInt(2)), Some(JStr(<<"k">>)))
    /\ Get(validated) = MkBook(<<"a">>, List(<<<<"y">>>>), None, List(<<>>), List(<<>>),
                               Some(2))

\* The body fetch_books got, once it has a response.
Body == Get(response).body

\* Each docs element validates.
AllDocsValid(b) ==
    \A i \in 1..Len(Get(b.docs).items) : ~IsNone(ValidateBook(Get(b.docs).items[i]))

\* model_validate has run and fetch_books has gone on from it.
PastValidation == validateCalls > 0 /\ fpc # "validate"

\* What C4 says of the exits of fetch_books, but for the missing count.
C4_Exits ==
    /\ fpc = "returned" =>
        /\ Body.kind = "object"
        /\ ~IsNone(Body.docs) /\ Get(Body.docs).isList
        /\ AllDocsValid(Body)
        /\ Len(Get(fetched)) = Len(Get(Body.docs).items)
        /\ \A i \in 1..Len(Get(fetched)) :
                Some(Get(fetched)[i]) = ValidateBook(Get(Body.docs).items[i])
    /\ fpc # "returned" => fetched = None
    /\ (PastValidation /\ Body.kind = "object" /\
            (IsNone(Body.docs) \/ ~Get(Body.docs).isList \/ ~AllDocsValid(Body))) =>
        (fpc = "raised" /\ ferror = "ValidationError")

\* C4 as stated: fetch_books returns exactly the envelope's records, in order
\* and whatever numFound says, and fails with a validation error and no
\* records whenever the body lacks docs or numFound or a docs element fails
\* Record validation.
C4_AllOrNothing_Original ==
    /\ C4_Exits
    /\ (PastValidation /\ Body.kind = "object" /\ IsNone(Body.numFound)) =>
        (fpc = "raised" /\ ferror = "ValidationError")

\* C4 as amended: the count is missing when the body has it neither as
\* numFound nor as num_found.
C4_AllOrNothing ==
    /\ C4_Exits
    /\ (PastValidation /\ Body.kind = "object" /\ IsNone(Body.numFound)
            /\ IsNone(Body.num_found)) =>
        (fpc = "raised" /\ ferror = "ValidationError")

\* A body whose first docs element validates and whose second does not: the
\* call raises and returns nothing.
C4_Witness ==
    /\ fpc = "raised"
    /\ ferror = "ValidationError"
    /\ Body.kind = "object"
    /\ ~IsNone(Body.numFound) /\ Get(Body.numFound).t = "int"
    /\ ~IsNone(Body.docs) /\ Get(Body.docs).isList
    /\ Len(Get(Body.docs).items) = 2
    /\ ~IsNone(ValidateBook(Get(Body.docs).items[1]))
    /\ IsNone(ValidateBook(Get(Body.docs).items[2]))
    /\ fetched = None

\* C5: after a non-success status nothing parses the body or validates an
\* envelope and the call raises the HTTP error; a call issues one GET, no
\* more, whether it returns or raises.
C5_StatusFirst ==
    /\ (~IsNone(response) /\ ~IsSuccess(Get(response).status)) =>
        /\ jsonCalls = 0 /\ validateCalls = 0
        /\ data = None /\ parsed = None /\ fetched = None
        /\ fpc \in {"status", "raised"}
        /\ fpc = "raised" => ferror = "HTTPStatusError"
    /\ getCount <= 1
    /\ fpc \in {"returned", "raised"} => (getCount = 1 /\ ~clientOpen)

\* Status 500 with a body that would have validated: the call has raised.
C5_Witness ==
    /\ fpc = "raised"
    /\ ferror = "HTTPStatusError"
    /\ Get(response).status = 500
    /\ ~IsNone(ValidateEnvelope(Body))
    /\ getCount = 1

----------------------------------------------------------------------------
(* Claims about format and write_to_file *)

\* json.loads: the tokens but the white space, then a descent through them.
Strip(text) == SelectSeq(text, LAMBDA tk : tk.k # "ws")

RECURSIVE Unescape(_)
Unescape(e) ==
    IF e = <<>> THEN <<>>
    ELSE IF Head(e) = "\\" THEN <<e[2]>> \o Unescape(Tail(Tail(e)))
    ELSE <<Head(e)>> \o Unescape(Tail(e))

ParseScalar(tk) ==
    CASE tk.k = "str" -> JStr(Unescape(tk.s))
      [] tk.k = "int" -> JInt(tk.n)
      [] tk.k = "null" -> JNull

\* The strs of a list, from the token after its "[" on.
RECURSIVE ParseStrs(_)
ParseStrs(toks) ==
    IF Head(toks).k = "]" THEN [val |-> <<>>, rest |-> Tail(toks)]
    ELSE LET x == Unescape(Head(toks).s)
             after == Tail(toks)
         IN IF Head(after).k = ","
            THEN LET more == ParseStrs(Tail(after))
                 IN [val |-> <<x>> \o more.val, rest |-> more.rest]
            ELSE [val |-> <<x>>, rest |-> Tail(after)]

ParseValue(toks) ==
    IF Head(toks).k = "["
    THEN LET xs == ParseStrs(Tail(toks)) IN [val |-> JList(xs.val), rest |-> xs.rest]
    ELSE [val |-> ParseScalar(Head(toks)), rest |-> Tail(toks)]

\* The members of an object, from the token after its "{" on, as pairs.
RECURSIVE ParseMembers(_)
ParseMembers(toks) ==
    IF Head(toks).k = "}" THEN [val |-> <<>>, rest |-> Tail(toks)]
    ELSE LET key == Unescape(Head(toks).s)[1]
             v == ParseValue(Tail(Tail(toks)))
         IN IF Head(v.rest).k = ","
            THEN LET more == ParseMembers(Tail(v.rest))
                 IN [val |-> <<<<key, v.val>>>> \o more.val, rest |-> more.rest]
            ELSE [val |-> <<<<key, v.val>>>>, rest |-> Tail(v.rest)]

\* The dict of a sequence of members: a later member of the same key wins.
DictOf(ms) ==
    [k \in {ms[i][1] : i \in 1..Len(ms)} |->
        LET last == CHOOSE i \in 1..Len(ms) :
                        ms[i][1] = k /\ \A j \in (i + 1)..Len(ms) : ms[j][1] # k
        IN ms[last][2]]

\* The objects of the top array, from the token after its "[" on.
RECURSIVE ParseObjects(_)
ParseObjects(toks) ==
    IF Head(toks).k = "]" THEN <<>>
    ELSE LET ms == ParseMembers(Tail(toks))
         IN IF Head(ms.rest).k = ","
            THEN <<DictOf(ms.val)>> \o ParseObjects(Tail(ms.rest))
            ELSE <<DictOf(ms.val)>>

loads(text) == ParseObjects(Tail(Strip(text)))

PublicNames ==
    {"title", "author_names", "first_publish_year", "publisher", "language",
     "number_of_pages"}

JOptInt(o) == IF IsNone(o) THEN JNull ELSE JInt(Get(o))

\* C9: the text format gives is a JSON array with one entry per record, in
\* the records' order, each entry keyed by the public field names and never
\* by the aliases, and parsing the text gives back the records' field values.
C9_JsonRoundTrip ==
    ~IsNone(content) =>
        LET text == Strip(Get(content))
            arr == loads(Get(content))
        IN /\ Head(text).k = "[" /\ text[Len(text)].k = "]"
           /\ Len(arr) = Len(wbooks)
           /\ \A i \in 1..Len(arr) :
                /\ DOMAIN arr[i] = PublicNames
                /\ arr[i]["title"] = JStr(wbooks[i].title)
                /\ arr[i]["author_names"] = JList(wbooks[i].author_names.items)
                /\ arr[i]["first_publish_year"] = JOptInt(wbooks[i].first_publish_year)
                /\ arr[i]["publisher"] = JList(wbooks[i].publisher.items)
                /\ arr[i]["language"] = JList(wbooks[i].language.items)
                /\ arr[i]["number_of_pages"] = JOptInt(wbooks[i].number_of_pages)

\* Two records formatted, the first with a title that needs escaping and an
\* unknown year, the second with two authors and a year.
C9_Witness ==
    /\ ~IsNone(content)
    /\ Len(wbooks) = 2
    /\ wbooks[1].title = <<"\"", "\\">>
    /\ wbooks[1].first_publish_year = None
    /\ wbooks[2].author_names = List(<<<<"x">>, <<"\"">>>>)
    /\ wbooks[2].first_publish_year = Some(-1)
    /\ indent = 2

\* C8: write_to_file computes format(books) before it opens the file for the
\* overwriting write; on each exit, return or raise, the handle is released;
\* a failed file operation makes the call raise, never return.
C8_WriteToFile ==
    /\ wpc \in {"save", "format"} => (~handle /\ file = file0 /\ IsNone(content))
    /\ (handle \/ file # file0) => content = Some(format(wbooks, indent))
    /\ wpc \in {"returned", "raised"} => ~handle
    /\ wpc = "returned" => (~failed /\ file = "written" /\ werror = "")
    /\ (failed /\ wpc \notin {"unwind"}) => (wpc = "raised" /\ werror = "OSError")

\* The write itself failed and the call has raised with the handle released.
C8_Witness ==
    /\ wpc = "raised"
    /\ failed
    /\ file = "partial"
    /\ ~handle
    /\ werror = "OSError"

====
